---- MODULE Spec2Model ----
(***************************************************************************)
(* Model of AppHandler (src/src/lib.rs): the winit ApplicationHandler that *)
(* owns a wgpu surface, device, queue, render pipeline and surface         *)
(* configuration, and draws one triangle per frame.                        *)
(*                                                                         *)
(* The handler's fields are the state.  The event loop and the GPU are the *)
(* environment: the event loop calls one handler at a time with inputs     *)
(* drawn from small sets, and every call the handler issues to the GPU or  *)
(* to the event loop is recorded, in order, in `ops` (the calls of the     *)
(* latest handler invocation), as a recording backend would.               *)
(*                                                                         *)
(* Option<T> is a sequence: <<>> is None and <<x>> is Some(x).             *)
(***************************************************************************)
EXTENDS Integers, Sequences, FiniteSets, TLC

VARIABLES
    surface,            \* self.surface: Option of [id, configured]
    device,             \* self.device: Option of [id]
    queue,              \* self.queue: Option of [id]
    render_pipeline,    \* self.render_pipeline: Option of pipeline record
    config,             \* self.config: Option of SurfaceConfiguration
    webview,            \* self.webview (absent from the android build)
    target_android,     \* cfg(target_os = "android") of this build
    loop_exiting,       \* the event loop has been asked to exit
    panicked,           \* an unwrap() failed: the process is unwinding
    next_id,            \* number of windows created so far
    ops,                \* calls issued by the latest handler invocation
    last,               \* the latest handler invocation and its input
    repeated,           \* history: that invocation repeats the one before it
    last_nonzero_size   \* history: latest size delivered with w > 0, h > 0

fields == <<surface, device, queue, render_pipeline, config, webview>>

vars == <<surface, device, queue, render_pipeline, config, webview,
          target_android, loop_exiting, panicked, next_id, ops, last,
          repeated, last_nonzero_size>>

----------------------------------------------------------------------------
(* Bounds of the model. *)

\* window widths and heights range over 0..MaxDim
MaxDim == 2
\* resumed() is delivered at most MaxResumes times in a run
MaxResumes == 2
\* length of the sequence of results the GPU holds ready for
\* get_current_texture during one draw_frame
MaxAcquire == 3

----------------------------------------------------------------------------
(* Option and call records. *)

None == <<>>
Some(x) == <<x>>
IsSome(o) == o # <<>>
Unwrap(o) == o[1]

\* One recorded call: its name, its result ("Ok", "Err" or "-"), the
\* configuration passed (an Option) and its integer arguments.
Call(op, result, cfg, arg) ==
    [op |-> op, result |-> result, config |-> cfg, arg |-> arg]

CountOp(calls, name) == Cardinality({i \in 1..Len(calls) : calls[i].op = name})

Event(handler, event, arg) == [handler |-> handler, event |-> event, arg |-> arg]

----------------------------------------------------------------------------
(* Inputs the environment provides. *)

Dims == 0..MaxDim
PositiveDims == 1..MaxDim

\* surface.get_capabilities(&adapter): the lists whose first elements the
\* handler takes.  The adapter was requested compatible with the surface,
\* so the lists are not empty.
SurfaceCapabilities ==
    { [formats |-> <<"Bgra8UnormSrgb", "Rgba8UnormSrgb">>,
       present_modes |-> <<"Fifo", "Mailbox">>,
       alpha_modes |-> <<"Opaque">>],
      [formats |-> <<"Rgba8UnormSrgb", "Bgra8UnormSrgb">>,
       present_modes |-> <<"Mailbox", "Fifo">>,
       alpha_modes |-> <<"PreMultiplied", "Opaque">>] }

AcquireResults == [1..MaxAcquire -> {"Ok", "Err"}]

\* WindowEvent values delivered to window_event; "Focused" stands for the
\* variants matched by the `_` arm.
WindowEvents ==
    { [kind |-> "Resized", width |-> w, height |-> h] : w \in Dims, h \in Dims }
    \cup { [kind |-> k, width |-> 0, height |-> 0] :
             k \in {"RedrawRequested", "CloseRequested", "Focused"} }

----------------------------------------------------------------------------
(* resumed: lib.rs 44-166 *)

\* Mutant of SurfaceConfigurationOf: width and height exchanged.
SurfaceConfigurationSwapped(caps, w, h) ==
    [usage |-> "RENDER_ATTACHMENT",
     format |-> caps.formats[1],
     width |-> h,
     height |-> w,
     present_mode |-> caps.present_modes[1],
     alpha_mode |-> caps.alpha_modes[1],
     view_formats |-> <<>>,
     desired_maximum_frame_latency |-> 1]

\* wgpu::SurfaceConfiguration built at lines 94-103
SurfaceConfigurationOf(caps, w, h) ==
    [usage |-> "RENDER_ATTACHMENT",
     format |-> caps.formats[1],
     width |-> w,
     height |-> h,
     present_mode |-> caps.present_modes[1],
     alpha_mode |-> caps.alpha_modes[1],
     view_formats |-> <<>>,
     desired_maximum_frame_latency |-> 1]

\* surface.configure(device, config): the surface now holds cfg
Configure(surf, cfg) == [surf EXCEPT !.configured = Some(cfg)]

ConfigureCall(surf, cfg) == Call("configure", "-", Some(cfg), <<surf.id>>)

\* Mutant of CreateRenderPipeline: the target format is written out in the
\* descriptor instead of taken from the configuration.
CreateRenderPipelineFixedFormat(id, cfg) ==
    [id |-> id,
     vertex_entry |-> "vs_main",
     fragment_entry |-> "fs_main",
     format |-> "Bgra8UnormSrgb",
     blend |-> "REPLACE",
     write_mask |-> "ALL"]

\* device.create_render_pipeline(..) of lines 135-159
CreateRenderPipeline(id, cfg) ==
    [id |-> id,
     vertex_entry |-> "vs_main",
     fragment_entry |-> "fs_main",
     format |-> cfg.format,
     blend |-> "REPLACE",
     write_mask |-> "ALL"]

\* The calls of resumed() that end in unwrap(), in program order.
ResumeUnwraps(android) ==
    IF android
    THEN <<"create_window", "create_surface", "request_adapter", "request_device">>
    ELSE <<"create_window", "build_as_child", "create_surface",
           "request_adapter", "request_device">>

\* Every call of a resumed() that runs to its end, in program order.
ResumeCalls(android, id, cfg) ==
    <<Call("create_window", "Ok", None, <<id>>)>>
    \o (IF android THEN <<>> ELSE <<Call("build_as_child", "Ok", None, <<id>>)>>)
    \o <<Call("create_surface", "Ok", None, <<id>>),
         Call("request_adapter", "Ok", None, <<id>>),
         Call("request_device", "Ok", None, <<id>>),
         Call("get_capabilities", "-", None, <<id>>),
         Call("configure", "-", Some(cfg), <<id>>),
         Call("create_shader_module", "-", None, <<id>>),
         Call("create_pipeline_layout", "-", None, <<id>>),
         Call("create_render_pipeline", "-", None, <<id>>)>>

\* The calls made when the call named `fail` returns Err: everything up to
\* it, and the failing call itself.
FailedPrefix(calls, fail) ==
    LET k == CHOOSE i \in 1..Len(calls) : calls[i].op = fail
    IN  [i \in 1..k |-> IF i = k THEN [calls[i] EXCEPT !.result = "Err"]
                                 ELSE calls[i]]

\* Mutant of ResumedFields: a resume that finds a device keeps the device,
\* queue and pipeline it holds and only replaces surface and configuration.
ResumedFieldsKeepDevice(id, cfg) ==
    [surface |-> Some(Configure([id |-> id, configured |-> None], cfg)),
     device |-> IF IsSome(device) THEN device ELSE Some([id |-> id]),
     queue |-> IF IsSome(queue) THEN queue ELSE Some([id |-> id]),
     config |-> Some(cfg),
     render_pipeline |-> IF IsSome(render_pipeline) THEN render_pipeline
                         ELSE Some(CreateRenderPipeline(id, cfg))]

\* Mutant of ResumedFields: the pipeline is created and not stored.
ResumedFieldsNoPipeline(id, cfg) ==
    [surface |-> Some(Configure([id |-> id, configured |-> None], cfg)),
     device |-> Some([id |-> id]),
     queue |-> Some([id |-> id]),
     config |-> Some(cfg),
     render_pipeline |-> None]

\* Mutant of FailedResumeFields: the surface is stored as soon as it is
\* created, before the adapter and the device are requested.
FailedResumeFieldsEarlySurface(id, fail) ==
    [surface |-> IF fail \in {"request_adapter", "request_device"}
                 THEN Some([id |-> id, configured |-> None])
                 ELSE surface,
     device |-> device,
     queue |-> queue,
     config |-> config,
     render_pipeline |-> render_pipeline]

\* The five fields after a resumed() in which the call named `fail`
\* panicked: lines 161-165 were not reached.
FailedResumeFields(id, fail) ==
    [surface |-> surface,
     device |-> device,
     queue |-> queue,
     config |-> config,
     render_pipeline |-> render_pipeline]

\* The field assignments of lines 161-165.
ResumedFields(id, cfg) ==
    [surface |-> Some(Configure([id |-> id, configured |-> None], cfg)),
     device |-> Some([id |-> id]),
     queue |-> Some([id |-> id]),
     config |-> Some(cfg),
     render_pipeline |-> Some(CreateRenderPipeline(id, cfg))]

resumed(w, h, caps, fail) ==
    /\ ~panicked
    /\ next_id < MaxResumes
    /\ LET id == next_id + 1
           cfg == SurfaceConfigurationOf(caps, w, h)
           calls == ResumeCalls(target_android, id, cfg)
           new == ResumedFields(id, cfg)
       IN
       /\ next_id' = id
       /\ last' = Event("resumed", "-", <<w, h>>)
       /\ repeated' = (last' = last)
       /\ IF fail = "none"
          THEN /\ surface' = new.surface
               /\ device' = new.device
               /\ queue' = new.queue
               /\ config' = new.config
               /\ render_pipeline' = new.render_pipeline
               /\ webview' = IF target_android THEN webview ELSE Some([id |-> id])
               /\ ops' = calls
               /\ last_nonzero_size' = <<w, h>>
               /\ UNCHANGED panicked
          ELSE /\ panicked' = TRUE
               /\ ops' = FailedPrefix(calls, fail)
               \* self.webview exists on the non-android build only; there
               \* it is assigned at line 53, once build_as_child has
               \* returned Ok
               /\ webview' = IF target_android
                                \/ fail \in {"create_window", "build_as_child"}
                             THEN webview
                             ELSE Some([id |-> id])
               /\ LET kept == FailedResumeFields(id, fail)
                  IN  /\ surface' = kept.surface
                      /\ device' = kept.device
                      /\ queue' = kept.queue
                      /\ config' = kept.config
                      /\ render_pipeline' = kept.render_pipeline
               /\ UNCHANGED last_nonzero_size
    /\ UNCHANGED <<target_android, loop_exiting>>

----------------------------------------------------------------------------
(* draw_frame: lib.rs 221-261 *)

GetCurrentTexture(result) == Call("get_current_texture", result, None, <<>>)

\* Mutant of AcquireCalls: a second failure is followed by one more
\* reconfiguration and a third attempt.
AcquireCallsRetryTwice(results, surf, cfg) ==
    IF results[1] = "Ok"
    THEN <<GetCurrentTexture("Ok")>>
    ELSE IF results[2] = "Ok"
    THEN <<GetCurrentTexture("Err"), ConfigureCall(surf, cfg),
           GetCurrentTexture("Ok")>>
    ELSE <<GetCurrentTexture("Err"), ConfigureCall(surf, cfg),
           GetCurrentTexture("Err"), ConfigureCall(surf, cfg),
           GetCurrentTexture(results[3])>>

\* Lines 229-235: the calls made to obtain the frame, given the results the
\* surface returns to successive get_current_texture calls.
AcquireCalls(results, surf, cfg) ==
    IF results[1] = "Ok"
    THEN <<GetCurrentTexture("Ok")>>
    ELSE <<GetCurrentTexture("Err"), ConfigureCall(surf, cfg),
           GetCurrentTexture(results[2])>>

\* Whether lines 229-235 end with a frame (otherwise unwrap() panics).
AcquireOk(results) == results[1] = "Ok" \/ results[2] = "Ok"

\* The surface after lines 229-235.
AcquireSurface(results, surf, cfg) ==
    IF results[1] = "Ok" THEN surf ELSE Configure(surf, cfg)

\* wgpu::Color::GREEN, as r, g, b, a
ClearColor == <<0, 1, 0, 1>>

\* rpass.draw(0..3, 0..1): first vertex, end vertex, first instance, end instance
DrawRange == <<0, 3, 0, 1>>

\* Mutant of RenderCalls: the frame is presented before the commands are
\* submitted.
RenderCallsPresentFirst(pipeline) ==
    <<Call("create_view", "-", None, <<>>),
      Call("create_command_encoder", "-", None, <<>>),
      Call("begin_render_pass", "-", None, ClearColor),
      Call("set_pipeline", "-", None, <<pipeline.id>>),
      Call("draw", "-", None, DrawRange),
      Call("end_render_pass", "-", None, <<>>),
      Call("finish", "-", None, <<>>),
      Call("present", "-", None, <<>>),
      Call("submit", "-", None, <<>>)>>

\* Mutant of RenderCalls: the frame is dropped without being presented.
RenderCallsNoPresent(pipeline) ==
    <<Call("create_view", "-", None, <<>>),
      Call("create_command_encoder", "-", None, <<>>),
      Call("begin_render_pass", "-", None, ClearColor),
      Call("set_pipeline", "-", None, <<pipeline.id>>),
      Call("draw", "-", None, DrawRange),
      Call("end_render_pass", "-", None, <<>>),
      Call("finish", "-", None, <<>>),
      Call("submit", "-", None, <<>>)>>

\* Lines 236-259: the calls made once the frame is held.
RenderCalls(pipeline) ==
    <<Call("create_view", "-", None, <<>>),
      Call("create_command_encoder", "-", None, <<>>),
      Call("begin_render_pass", "-", None, ClearColor),
      Call("set_pipeline", "-", None, <<pipeline.id>>),
      Call("draw", "-", None, DrawRange),
      Call("end_render_pass", "-", None, <<>>),
      Call("finish", "-", None, <<>>),
      Call("submit", "-", None, <<>>),
      Call("present", "-", None, <<>>)>>

\* The presence test of lines 222-228.
DrawFrameReady ==
    /\ IsSome(surface)
    /\ IsSome(device)
    /\ IsSome(queue)
    /\ IsSome(render_pipeline)
    /\ IsSome(config)

\* Lines 229-259: the body run when every field is present.
DrawFrameBody(results) ==
    LET surf == Unwrap(surface)
        cfg == Unwrap(config)
        acquire == AcquireCalls(results, surf, cfg)
    IN  /\ surface' = Some(AcquireSurface(results, surf, cfg))
        /\ IF AcquireOk(results)
           THEN /\ ops' = acquire \o RenderCalls(Unwrap(render_pipeline))
                /\ UNCHANGED panicked
           ELSE /\ ops' = acquire
                /\ panicked' = TRUE

\* Mutant of draw_frame: the fields are unwrapped instead of tested, so a
\* call that finds one absent panics.
draw_frame_unwrapping(results) ==
    IF DrawFrameReady
    THEN DrawFrameBody(results)
    ELSE /\ ops' = <<>>
         /\ panicked' = TRUE
         /\ UNCHANGED surface

\* draw_frame, as the part of a handler step that sets surface, ops, panicked.
draw_frame(results) ==
    IF DrawFrameReady
    THEN DrawFrameBody(results)
    ELSE /\ ops' = <<>>
         /\ UNCHANGED <<surface, panicked>>

----------------------------------------------------------------------------
(* window_event: lib.rs 168-183 *)

\* The presence test of lines 169-170.
WindowEventReady == IsSome(surface) /\ IsSome(device) /\ IsSome(config)

\* Mutant of ResizedConfig: the delivered size is added to the stored one.
ResizedConfigAccumulating(cfg, w, h) ==
    [cfg EXCEPT !.width = cfg.width + w, !.height = cfg.height + h]

\* Lines 174-175: the configuration after a Resized(w, h).
ResizedConfig(cfg, w, h) == [cfg EXCEPT !.width = w, !.height = h]

\* Mutant of CloseRequestedCalls: the close request is dropped.
CloseRequestedIgnored == <<>>

\* Line 179: the calls made for CloseRequested.
CloseRequestedCalls == <<Call("exit", "-", None, <<>>)>>

\* Mutant of ResizedSurface: the new size is stored and the surface is
\* reconfigured later, not in the handler.
ResizedSurfaceDeferred(surf, cfg) == surf

\* Line 176: the surface after the Resized arm.
ResizedSurface(surf, cfg) == Configure(surf, cfg)

\* Mutant of NotReadyCalls: CloseRequested is matched outside the presence
\* test.
NotReadyCallsExitOnClose(event) ==
    IF event.kind = "CloseRequested" THEN CloseRequestedCalls ELSE <<>>

\* Lines 169-182: the calls made for an event that finds a field absent.
NotReadyCalls(event) == <<>>

window_event(event, results) ==
    /\ ~panicked
    /\ last' = Event("window_event", event.kind, <<event.width, event.height>>)
    /\ repeated' = (last' = last)
    /\ IF WindowEventReady
       THEN CASE event.kind = "Resized" ->
                   LET cfg == ResizedConfig(Unwrap(config), event.width, event.height)
                       surf == Unwrap(surface)
                   IN  /\ config' = Some(cfg)
                       /\ surface' = Some(ResizedSurface(surf, cfg))
                       /\ ops' = <<ConfigureCall(surf, cfg)>>
                       /\ last_nonzero_size' =
                              IF event.width > 0 /\ event.height > 0
                              THEN <<event.width, event.height>>
                              ELSE last_nonzero_size
                       /\ UNCHANGED <<loop_exiting, panicked>>
              [] event.kind = "RedrawRequested" ->
                   /\ draw_frame(results)
                   /\ UNCHANGED <<config, loop_exiting, last_nonzero_size>>
              [] event.kind = "CloseRequested" ->
                   /\ ops' = CloseRequestedCalls
                   /\ loop_exiting' = (loop_exiting \/ CountOp(ops', "exit") > 0)
                   /\ UNCHANGED <<surface, config, panicked, last_nonzero_size>>
              [] OTHER ->
                   /\ ops' = <<>>
                   /\ UNCHANGED <<surface, config, loop_exiting, panicked,
                                  last_nonzero_size>>
       ELSE /\ ops' = NotReadyCalls(event)
            /\ loop_exiting' = (loop_exiting \/ CountOp(ops', "exit") > 0)
            /\ UNCHANGED <<surface, config, panicked, last_nonzero_size>>
    /\ UNCHANGED <<device, queue, render_pipeline, webview, target_android, next_id>>

----------------------------------------------------------------------------
(* about_to_wait: lib.rs 185-187 *)

\* Mutant of about_to_wait: a frame is drawn only when the event before the
\* idle tick was a redraw request.
about_to_wait_on_demand(results) ==
    /\ ~panicked
    /\ last' = Event("about_to_wait", "-", <<>>)
    /\ repeated' = (last' = last)
    /\ IF last.handler = "window_event" /\ last.event = "RedrawRequested"
       THEN draw_frame(results)
       ELSE /\ ops' = <<>>
            /\ UNCHANGED <<surface, panicked>>
    /\ UNCHANGED <<device, queue, render_pipeline, config, webview,
                   target_android, loop_exiting, next_id, last_nonzero_size>>

about_to_wait(results) ==
    /\ ~panicked
    /\ last' = Event("about_to_wait", "-", <<>>)
    /\ repeated' = (last' = last)
    /\ draw_frame(results)
    /\ UNCHANGED <<device, queue, render_pipeline, config, webview,
                   target_android, loop_exiting, next_id, last_nonzero_size>>

----------------------------------------------------------------------------
(* The handlers whose bodies only drop their arguments: lib.rs 189-216 *)

Ignored(handler) ==
    /\ ~panicked
    /\ last' = Event(handler, "-", <<>>)
    /\ repeated' = (last' = last)
    /\ ops' = <<>>
    /\ UNCHANGED <<surface, device, queue, render_pipeline, config, webview,
                   target_android, loop_exiting, panicked, next_id,
                   last_nonzero_size>>

\* Mutant of suspended: the surface is dropped when the application is
\* suspended.
suspended_dropping_surface ==
    /\ ~panicked
    /\ last' = Event("suspended", "-", <<>>)
    /\ repeated' = (last' = last)
    /\ ops' = <<>>
    /\ surface' = None
    /\ UNCHANGED <<device, queue, render_pipeline, config, webview,
                   target_android, loop_exiting, panicked, next_id,
                   last_nonzero_size>>

\* Mutant of device_event: a device event asks the event loop to exit.
device_event_exiting ==
    /\ ~panicked
    /\ last' = Event("device_event", "-", <<>>)
    /\ repeated' = (last' = last)
    /\ ops' = <<Call("exit", "-", None, <<>>)>>
    /\ loop_exiting' = TRUE
    /\ UNCHANGED <<surface, device, queue, render_pipeline, config, webview,
                   target_android, panicked, next_id, last_nonzero_size>>

new_events == Ignored("new_events")
user_event == Ignored("user_event")
device_event == Ignored("device_event")
suspended == Ignored("suspended")
exiting == Ignored("exiting")
memory_warning == Ignored("memory_warning")

----------------------------------------------------------------------------
(* AppHandler::new (lib.rs 30-40), on either build. *)

Init ==
    /\ surface = None
    /\ device = None
    /\ queue = None
    /\ render_pipeline = None
    /\ config = None
    /\ webview = None
    /\ target_android \in BOOLEAN
    /\ loop_exiting = FALSE
    /\ panicked = FALSE
    /\ next_id = 0
    /\ ops = <<>>
    /\ last = Event("new", "-", <<>>)
    /\ repeated = FALSE
    /\ last_nonzero_size = <<>>

Resume ==
    \E w \in PositiveDims, h \in PositiveDims, caps \in SurfaceCapabilities :
        \E fail \in {"none"} \cup
                    {ResumeUnwraps(target_android)[i] :
                         i \in 1..Len(ResumeUnwraps(target_android))} :
            resumed(w, h, caps, fail)

\* Only RedrawRequested reads the acquisition results; the other events
\* are delivered with one fixed sequence.
WindowEvent ==
    \E event \in WindowEvents, results \in AcquireResults :
        /\ event.kind # "RedrawRequested" => results = [i \in 1..MaxAcquire |-> "Ok"]
        /\ window_event(event, results)

AboutToWait == \E results \in AcquireResults : about_to_wait(results)

Next ==
    \/ Resume
    \/ WindowEvent
    \/ AboutToWait
    \/ new_events
    \/ user_event
    \/ device_event
    \/ suspended
    \/ exiting
    \/ memory_warning

Spec == Init /\ [][Next]_vars

----------------------------------------------------------------------------
(* Vocabulary of the properties. *)

\* The controller is Active: the handler holds its resources.
Active == WindowEventReady

\* The latest handler invocation was a render call.
LastIsDraw ==
    \/ last.handler = "about_to_wait"
    \/ last.handler = "window_event" /\ last.event = "RedrawRequested"

\* The latest handler invocation was window_event(Resized(w, h)).
LastIsResized == last.handler = "window_event" /\ last.event = "Resized"

\* The index of the only call named `name` in `calls`.
Pos(calls, name) == CHOOSE i \in 1..Len(calls) : calls[i].op = name

ResultsOf(calls, name) ==
    LET idx == {i \in 1..Len(calls) : calls[i].op = name}
    IN  {<<i, calls[i].result>> : i \in idx}

----------------------------------------------------------------------------
\* C1: while Active, a resize whose width or height is zero is skipped: the
\* stored configuration and the surface are left as they were and no
\* configuration is applied to the surface.
C1_ZeroResizeSkipped ==
    [][ ( /\ Active
          /\ last'.handler = "window_event"
          /\ last'.event = "Resized"
          /\ (last'.arg[1] = 0 \/ last'.arg[2] = 0) )
        => ( /\ config' = config
             /\ surface' = surface
             /\ CountOp(ops', "configure") = 0 ) ]_vars

\* C2: the stored width and height are those of the latest size delivered
\* with both dimensions non-zero (by a resize, or else by the resume).
C2_LastNonZeroSizeWins ==
    IsSome(config) =>
        <<Unwrap(config).width, Unwrap(config).height>> = last_nonzero_size

\* C3: every configuration applied to the surface, and the configuration
\* in force at every frame acquisition, has width > 0 and height > 0.
C3_NeverZeroSized ==
    \A i \in 1..Len(ops) :
        /\ ops[i].op = "configure" =>
               /\ Unwrap(ops[i].config).width > 0
               /\ Unwrap(ops[i].config).height > 0
        /\ ops[i].op = "get_current_texture" =>
               /\ Unwrap(config).width > 0
               /\ Unwrap(config).height > 0

----------------------------------------------------------------------------
\* C4: a render call retries frame acquisition exactly once.  A first
\* success makes one attempt and no reconfiguration.  A first failure is
\* followed by exactly one reconfiguration with the stored configuration
\* and exactly one more attempt; if that succeeds the frame is drawn and
\* presented, and if it fails the call panics with no third attempt and
\* nothing presented.
C4_RetryExactlyOnce ==
    (LastIsDraw /\ DrawFrameReady) =>
        /\ Len(ops) > 0
        /\ ops[1].op = "get_current_texture"
        /\ ops[1].result = "Ok" =>
               /\ CountOp(ops, "get_current_texture") = 1
               /\ CountOp(ops, "configure") = 0
               /\ CountOp(ops, "draw") = 1
               /\ CountOp(ops, "present") = 1
               /\ ~panicked
        /\ ops[1].result = "Err" =>
               /\ CountOp(ops, "get_current_texture") = 2
               /\ CountOp(ops, "configure") = 1
               /\ ops[2].op = "configure"
               /\ ops[2].config = config
               /\ ops[2].arg = <<Unwrap(surface).id>>
               /\ ops[3].op = "get_current_texture"
               /\ ops[3].result = "Ok" =>
                      /\ CountOp(ops, "draw") = 1
                      /\ CountOp(ops, "present") = 1
                      /\ ~panicked
               /\ ops[3].result = "Err" =>
                      /\ Len(ops) = 3
                      /\ panicked

\* C4 witness: a render call whose first acquisition failed and whose
\* second succeeded, and which presented its frame.
C4_Witness ==
    /\ LastIsDraw
    /\ DrawFrameReady
    /\ ResultsOf(ops, "get_current_texture") = {<<1, "Err">>, <<3, "Ok">>}
    /\ CountOp(ops, "present") = 1

\* Two failed acquisitions in one render call: the call panicked.
C4_WitnessFatal ==
    /\ LastIsDraw
    /\ ResultsOf(ops, "get_current_texture") = {<<1, "Err">>, <<3, "Err">>}
    /\ panicked

----------------------------------------------------------------------------
\* C5: a step issues frame calls only when surface, device, queue,
\* configuration and pipeline all exist; a redraw request or idle tick that
\* finds one absent changes no field and issues no call, requests no exit
\* and does not panic.
C5_NoFrameBeforeResume ==
    [][ /\ ( \/ CountOp(ops', "get_current_texture") > 0
             \/ CountOp(ops', "draw") > 0
             \/ CountOp(ops', "submit") > 0
             \/ CountOp(ops', "present") > 0 )
           => (DrawFrameReady /\ DrawFrameReady')
        /\ ( /\ ~DrawFrameReady
             /\ \/ last'.handler = "about_to_wait"
                \/ last'.handler = "window_event" /\ last'.event = "RedrawRequested" )
           => ( /\ fields' = fields
                /\ ops' = <<>>
                /\ loop_exiting' = loop_exiting
                /\ panicked' = panicked ) ]_vars

\* C5 witness: a redraw request or idle tick delivered before any resume.
C5_Witness ==
    /\ LastIsDraw
    /\ next_id = 0
    /\ ~DrawFrameReady
    /\ ops = <<>>

----------------------------------------------------------------------------
\* C6: a close request delivered while Active asks the event loop to exit,
\* with exactly one exit call and no other call.
C6_CloseExitsOnce ==
    [][ ( /\ Active
          /\ last'.handler = "window_event"
          /\ last'.event = "CloseRequested" )
        => ( /\ loop_exiting'
             /\ CountOp(ops', "exit") = 1
             /\ Len(ops') = 1
             /\ fields' = fields ) ]_vars

\* C6 witness: the first close request, delivered while Active, was handled.
C6_Witness ==
    /\ Active
    /\ last.handler = "window_event"
    /\ last.event = "CloseRequested"
    /\ loop_exiting
    /\ CountOp(ops, "exit") = 1

\* C7: once a close request was processed while Active, no later resize,
\* redraw request, idle tick or close request changes a field, issues a
\* call or asks for exit again.  (These are the events the event loop still
\* delivers while it finishes the iteration in which exit was requested.)
C7_NothingAfterExit ==
    [][ ( /\ loop_exiting
          /\ last'.handler \in {"window_event", "about_to_wait"} )
        => ( /\ fields' = fields
             /\ ops' = <<>>
             /\ loop_exiting' = loop_exiting
             /\ panicked' = panicked ) ]_vars

----------------------------------------------------------------------------
\* C8 as stated: the device, queue, surface and pipeline held are always
\* those created by the first resume.
C8_CreatedOnce ==
    IsSome(device) =>
        /\ Unwrap(device).id = 1
        /\ Unwrap(queue).id = 1
        /\ Unwrap(surface).id = 1
        /\ Unwrap(render_pipeline).id = 1

\* C8 amended: every resume that runs to its end replaces surface, device,
\* queue and pipeline by ones created for the window it created, and no
\* other event changes which surface, device, queue and pipeline are held.
C8_CreatedAtEveryResume ==
    [][ IF last'.handler = "resumed" /\ ~panicked'
        THEN /\ next_id' = next_id + 1
             /\ surface' # None /\ Unwrap(surface').id = next_id'
             /\ device' = Some([id |-> next_id'])
             /\ queue' = Some([id |-> next_id'])
             /\ render_pipeline' # None /\ Unwrap(render_pipeline').id = next_id'
        ELSE /\ device' = device
             /\ queue' = queue
             /\ render_pipeline' = render_pipeline
             /\ IsSome(surface') = IsSome(surface)
             /\ IsSome(surface) => Unwrap(surface').id = Unwrap(surface).id ]_vars

\* C8 witness: a second resume ran to its end and its resources are held.
C8_Witness ==
    /\ last.handler = "resumed"
    /\ ~panicked
    /\ next_id = 2
    /\ Unwrap(device).id = 2
    /\ Unwrap(surface).id = 2

----------------------------------------------------------------------------
\* C9: after a resume that ran to its end with a window of size (w, h) the
\* controller is Active, the stored configuration and the one applied to
\* the surface have width w and height h, and the pipeline exists.
C9_ResumeConfigures ==
    (last.handler = "resumed" /\ ~panicked) =>
        /\ Active
        /\ DrawFrameReady
        /\ Unwrap(config).width = last.arg[1]
        /\ Unwrap(config).height = last.arg[2]
        /\ Unwrap(surface).configured = config
        /\ CountOp(ops, "configure") = 1
        /\ ops[Pos(ops, "configure")].config = config
        /\ CountOp(ops, "create_render_pipeline") = 1
        /\ Pos(ops, "configure") < Pos(ops, "create_render_pipeline")

\* C9 witness: a resume with a 2 x 1 window ran to its end.
C9_Witness ==
    /\ last = Event("resumed", "-", <<2, 1>>)
    /\ ~panicked
    /\ Unwrap(config).width = 2
    /\ Unwrap(config).height = 1

----------------------------------------------------------------------------
\* C10: a render call that presents has issued, in this order and once
\* each: begin render pass clearing to green, set pipeline (the held one),
\* a draw of 3 vertices and 1 instance, end pass, submit, present; the
\* present is its last call.  Every render call that is ready and does not
\* panic presents.
C10_RenderOrder ==
    /\ (LastIsDraw /\ DrawFrameReady /\ ~panicked) => CountOp(ops, "present") = 1
    /\ CountOp(ops, "present") > 0 =>
        /\ \A n \in {"begin_render_pass", "set_pipeline", "draw",
                     "end_render_pass", "submit", "present"} :
               CountOp(ops, n) = 1
        /\ Pos(ops, "get_current_texture") < Pos(ops, "begin_render_pass")
        /\ Pos(ops, "begin_render_pass") < Pos(ops, "set_pipeline")
        /\ Pos(ops, "set_pipeline") < Pos(ops, "draw")
        /\ Pos(ops, "draw") < Pos(ops, "end_render_pass")
        /\ Pos(ops, "end_render_pass") < Pos(ops, "submit")
        /\ Pos(ops, "submit") < Pos(ops, "present")
        /\ Pos(ops, "present") = Len(ops)
        /\ ops[Pos(ops, "begin_render_pass")].arg = <<0, 1, 0, 1>>
        /\ ops[Pos(ops, "set_pipeline")].arg = <<Unwrap(render_pipeline).id>>
        /\ LET d == ops[Pos(ops, "draw")].arg
           IN  d[2] - d[1] = 3 /\ d[4] - d[3] = 1

\* C10 witness: a render call presented a frame.
C10_Witness ==
    /\ LastIsDraw
    /\ CountOp(ops, "present") = 1
    /\ CountOp(ops, "draw") = 1

----------------------------------------------------------------------------
\* The five resources the controller holds.
resources == <<surface, device, queue, render_pipeline, config>>

\* Number of get_current_texture calls of `calls` that returned `result`.
CountAcquired(calls, result) ==
    Cardinality({i \in 1..Len(calls) :
                     calls[i].op = "get_current_texture" /\ calls[i].result = result})

----------------------------------------------------------------------------
\* C11: while Active, every idle tick runs one render call, whatever event
\* came before it: frame acquisition is attempted, one frame is drawn and
\* presented unless acquisition failed twice (then the call panics), no
\* second frame is begun, and the resources stay in place.
C11_IdleAlwaysRenders ==
    [][ (DrawFrameReady /\ last'.handler = "about_to_wait") =>
            /\ Len(ops') > 0
            /\ ops'[1].op = "get_current_texture"
            /\ panicked' <=> CountAcquired(ops', "Err") = 2
            /\ ~panicked' =>
                   /\ CountAcquired(ops', "Ok") = 1
                   /\ CountOp(ops', "begin_render_pass") = 1
                   /\ CountOp(ops', "draw") = 1
                   /\ CountOp(ops', "present") = 1
            /\ panicked' => CountOp(ops', "present") = 0
            /\ DrawFrameReady'
            /\ loop_exiting' = loop_exiting ]_vars

\* C11 witness: an idle tick delivered while Active, with no redraw request
\* before it, presented a frame.
C11_Witness ==
    /\ last.handler = "about_to_wait"
    /\ DrawFrameReady
    /\ ~panicked
    /\ CountAcquired(ops, "Ok") = 1
    /\ ops[Len(ops)].op = "present"

----------------------------------------------------------------------------
\* C12: delivering the same Resized(w, h), w > 0 and h > 0, a second time
\* in a row while Active leaves every field of the stored configuration,
\* and the surface, as the first delivery left them.
C12_ResizeIdempotent ==
    [][ ( /\ Active
          /\ LastIsResized
          /\ last.arg[1] > 0
          /\ last.arg[2] > 0
          /\ last' = last )
        => ( /\ config' = config
             /\ surface' = surface
             /\ resources' = resources ) ]_vars

\* C12 witness: the same non-zero Resized was delivered twice in a row.
C12_Witness ==
    /\ Active
    /\ LastIsResized
    /\ repeated
    /\ last.arg[1] > 0
    /\ last.arg[2] > 0
    /\ Unwrap(config).width = last.arg[1]
    /\ Unwrap(config).height = last.arg[2]

----------------------------------------------------------------------------
\* C13: a non-zero Resized delivered while Active applies, in that handler
\* call, the configuration with the new size; and after every handler call
\* the configuration last applied to the surface is the stored one.
C13_ResizeAppliedAtOnce ==
    [][ /\ (IsSome(surface') /\ IsSome(config')) =>
               Unwrap(surface').configured = config'
        /\ ( /\ Active
             /\ last'.handler = "window_event"
             /\ last'.event = "Resized"
             /\ last'.arg[1] > 0
             /\ last'.arg[2] > 0 )
           => ( /\ Len(ops') = 1
                /\ ops'[1].op = "configure"
                /\ ops'[1].config = config'
                /\ Unwrap(config').width = last'.arg[1]
                /\ Unwrap(config').height = last'.arg[2] ) ]_vars

\* C13 witness: a resize to a size other than the resume's was applied.
C13_Witness ==
    /\ Active
    /\ LastIsResized
    /\ last.arg = <<2, 1>>
    /\ Unwrap(Unwrap(surface).configured).width = 2
    /\ Unwrap(Unwrap(surface).configured).height = 1
    /\ CountOp(ops, "configure") = 1

----------------------------------------------------------------------------
\* C14: a suspend leaves surface, device, queue, pipeline and configuration
\* as they were.
C14_SuspendReleasesNothing ==
    [][ last'.handler = "suspended" =>
            ( /\ resources' = resources
              /\ ops' = <<>> ) ]_vars

\* C14 witness: a suspend delivered while Active, the resources still held.
C14_Witness ==
    /\ last.handler = "suspended"
    /\ DrawFrameReady
    /\ next_id = 1

----------------------------------------------------------------------------
\* C15: a resume that runs to its end requests adapter and device, then
\* configures the surface, then creates the pipeline; a resume in which a
\* call fails panics, has created no pipeline and stores none of surface,
\* device, queue, configuration and pipeline (absent before, they are
\* absent after).
C15_ResumeOrderAndAbort ==
    [][ last'.handler = "resumed" =>
            IF panicked'
            THEN /\ ops'[Len(ops')].result = "Err"
                 /\ CountOp(ops', "create_render_pipeline") = 0
                 /\ resources' = resources
                 /\ ~DrawFrameReady =>
                        /\ surface' = None
                        /\ device' = None
                        /\ queue' = None
                        /\ config' = None
                        /\ render_pipeline' = None
            ELSE /\ \A n \in {"request_adapter", "request_device", "configure",
                              "create_render_pipeline"} : CountOp(ops', n) = 1
                 /\ Pos(ops', "request_adapter") < Pos(ops', "request_device")
                 /\ Pos(ops', "request_device") < Pos(ops', "configure")
                 /\ Pos(ops', "configure") < Pos(ops', "create_render_pipeline")
                 /\ DrawFrameReady' ]_vars

\* C15 witness: the first resume panicked at request_adapter, after the
\* surface was created; nothing is stored.
C15_Witness ==
    /\ last.handler = "resumed"
    /\ panicked
    /\ next_id = 1
    /\ ops[Len(ops)].op = "request_adapter"
    /\ surface = None
    /\ device = None
    /\ config = None

----------------------------------------------------------------------------
\* C16: within every handler call each frame acquired is presented, by the
\* call's last operation, and at most one frame is acquired; so no frame
\* is outstanding when a handler returns.
C16_NoFrameHeld ==
    /\ CountAcquired(ops, "Ok") <= 1
    /\ CountOp(ops, "present") = CountAcquired(ops, "Ok")
    /\ CountAcquired(ops, "Ok") = 1 =>
           /\ ops[Len(ops)].op = "present"
           /\ \A i \in 1..Len(ops) :
                  ops[i].op = "get_current_texture" => i < Len(ops)

\* C16 witness: a frame acquired at the first attempt was presented.
C16_Witness ==
    /\ Len(ops) > 1
    /\ ops[1] = GetCurrentTexture("Ok")
    /\ ops[Len(ops)].op = "present"

----------------------------------------------------------------------------
\* The handlers of lines 189-204 and 210-216.
NoOpHandlers ==
    {"new_events", "user_event", "device_event", "exiting", "memory_warning"}

\* C17: new_events, user_event, device_event, exiting and memory_warning
\* change no field, issue no call, request no exit and do not panic, in any
\* state.
C17_OtherSignalsAreNoOps ==
    [][ last'.handler \in NoOpHandlers =>
            ( /\ fields' = fields
              /\ ops' = <<>>
              /\ loop_exiting' = loop_exiting
              /\ panicked' = panicked ) ]_vars

\* C17 witness: a device event delivered while Active.
C17_Witness ==
    /\ last.handler = "device_event"
    /\ DrawFrameReady
    /\ ~loop_exiting
    /\ ops = <<>>

----------------------------------------------------------------------------
\* C18: surface, device, queue, configuration and pipeline are all absent
\* or all present.
C18_AllOrNothing ==
    \/ /\ surface = None
       /\ device = None
       /\ queue = None
       /\ config = None
       /\ render_pipeline = None
    \/ /\ IsSome(surface)
       /\ IsSome(device)
       /\ IsSome(queue)
       /\ IsSome(config)
       /\ IsSome(render_pipeline)

\* C18 witness: all five present after a second resume panicked.
C18_Witness ==
    /\ last.handler = "resumed"
    /\ panicked
    /\ next_id = 2
    /\ IsSome(surface)
    /\ IsSome(render_pipeline)

----------------------------------------------------------------------------
\* C19: whenever the resources are held the pipeline's target format is the
\* configuration's format; every step other than a resume keeps the
\* configuration's format, present mode and alpha mode and keeps the
\* pipeline.
C19_FormatFixedAtResume ==
    [][ /\ DrawFrameReady' =>
               Unwrap(render_pipeline').format = Unwrap(config').format
        /\ (IsSome(config) /\ last'.handler # "resumed") =>
               /\ IsSome(config')
               /\ Unwrap(config').format = Unwrap(config).format
               /\ Unwrap(config').present_mode = Unwrap(config).present_mode
               /\ Unwrap(config').alpha_mode = Unwrap(config).alpha_mode
               /\ Unwrap(config').usage = Unwrap(config).usage
               /\ render_pipeline' = render_pipeline ]_vars

\* C19 witness: after a resume that chose the second capability list, a
\* resize was handled and configuration and pipeline agree on the format.
C19_Witness ==
    /\ Active
    /\ LastIsResized
    /\ Unwrap(config).format = "Rgba8UnormSrgb"
    /\ Unwrap(render_pipeline).format = "Rgba8UnormSrgb"
    /\ Unwrap(config).alpha_mode = "PreMultiplied"

----------------------------------------------------------------------------
\* C20: a window event delivered while surface, device or configuration is
\* absent is ignored, CloseRequested included: no field changes, no call
\* is issued and no exit is requested.
C20_WindowEventsIgnoredBeforeResume ==
    [][ (~WindowEventReady /\ last'.handler = "window_event") =>
            ( /\ fields' = fields
              /\ ops' = <<>>
              /\ loop_exiting' = loop_exiting
              /\ panicked' = panicked ) ]_vars

\* C20 witness: a close request delivered before any resume left the loop
\* running.
C20_Witness ==
    /\ last.handler = "window_event"
    /\ last.event = "CloseRequested"
    /\ next_id = 0
    /\ ~loop_exiting
    /\ ops = <<>>

====
